---- MODULE Spec2Model ----
(***************************************************************************)
(* A model of backup_goodreads.py: the review fetch loop, the shelf        *)
(* aggregator, the status pagination loop, the progress-sentence parser,   *)
(* the page-count converter and main()'s order of fetches and writes.      *)
(*                                                                         *)
(* Text is modelled as a sequence of tokens separated by single spaces.    *)
(* A token is a record [k, d, pct]: k is the word, or "num" for a token of *)
(* the shape \d*%? (d its digits, pct whether a percent sign ends it; the  *)
(* empty token, d = <<>> and pct = FALSE, is what lies between two         *)
(* adjacent spaces).                                                       *)
(***************************************************************************)
EXTENDS Integers, Sequences, FiniteSets, TLC

VARIABLES
    pc,                  \* where the program is
    arg, ret,            \* the argument and the result of a function applied alone
    mode,                \* cfg['mode']
    api_page_no,         \* _get_reviews_from_api: page_no of the for loop
    api_log,             \* the review API's responses, in the order fetched
    reviews_list,        \* main: reviews_list, the dictionaries get_reviews yielded
    shelves,             \* extract_shelves' result
    page_no,             \* get_statuses: the next value of itertools.count()
    site_log,            \* the status pages fetched, in the order fetched
    total_status_count,  \* get_statuses: total_status_count
    statuses,            \* get_statuses: statuses, the accumulator
    files,               \* the files written so far
    error                \* the exception that ended the run ("none": none)

vars == <<pc, arg, ret, mode, api_page_no, api_log, reviews_list, shelves,
          page_no, site_log, total_status_count, statuses, files, error>>

runvars == <<mode, api_page_no, api_log, reviews_list, shelves,
             page_no, site_log, total_status_count, statuses, files, error>>

\* ------------------------------------------------------------------ bounds

\* Largest page number / percent value written out in full in the sentences.
MaxNum == 50

\* ------------------------------------------------------------------ tokens

Word(w) == [k |-> w, d |-> <<>>, pct |-> FALSE]

Num(ds, p) == [k |-> "num", d |-> ds, pct |-> p]

EmptyTok == Num(<<>>, FALSE)

\* The decimal digits of n, most significant first (how the page prints it).
RECURSIVE Digits(_)
Digits(n) == IF n < 10 THEN <<n>> ELSE Append(Digits(n \div 10), n % 10)

\* ------------------------------------------------------ Python's int(str)

\* int() of a string of decimal digits (leading zeros allowed).
RECURSIVE IntOfDigits(_)
IntOfDigits(ds) ==
    IF ds = <<>> THEN 0
    ELSE 10 * IntOfDigits(SubSeq(ds, 1, Len(ds) - 1)) + ds[Len(ds)]

\* ------------------------------------------- Python's float arithmetic
\* A binary floating-point value is [bits, e]: bits is the significand, most
\* significant bit first, and e the exponent of its last bit, so that the value
\* is IntOfBits(bits) * 2^e.  Significands are kept as bit sequences because
\* they have 53 bits.

Precision == 53

RECURSIVE Pow2(_)
Pow2(n) == IF n = 0 THEN 1 ELSE 2 * Pow2(n - 1)

RECURSIVE IntOfBits(_)
IntOfBits(bs) ==
    IF bs = <<>> THEN 0
    ELSE 2 * IntOfBits(SubSeq(bs, 1, Len(bs) - 1)) + bs[Len(bs)]

RECURSIVE BitsOf(_)
BitsOf(n) == IF n = 0 THEN <<>> ELSE Append(BitsOf(n \div 2), n % 2)

\* bs + 1, as a bit sequence (one bit longer when every bit of bs is 1).
RECURSIVE IncBits(_)
IncBits(bs) ==
    IF bs = <<>> THEN <<1>>
    ELSE IF bs[Len(bs)] = 0 THEN [bs EXCEPT ![Len(bs)] = 1]
    ELSE Append(IncBits(SubSeq(bs, 1, Len(bs) - 1)), 0)

\* Round to nearest, ties to even, to Precision significant bits.
RoundToPrecision(x) ==
    LET n == Len(x.bits)
    IN  IF n <= Precision THEN x
        ELSE LET kept   == SubSeq(x.bits, 1, Precision)
                 guard  == x.bits[Precision + 1]
                 sticky == \E i \in (Precision + 2)..n : x.bits[i] = 1
                 up     == guard = 1 /\ (sticky \/ kept[Precision] = 1)
             IN  [bits |-> IF up THEN IncBits(kept) ELSE kept,
                  e    |-> x.e + (n - Precision)]

\* Long division: k more quotient bits of rem / d0 (rem < d0), appended to acc.
RECURSIVE DivBits(_, _, _, _)
DivBits(rem, d0, k, acc) ==
    IF k = 0 THEN [bits |-> acc, rem |-> rem]
    ELSE IF 2 * rem >= d0 THEN DivBits(2 * rem - d0, d0, k - 1, Append(acc, 1))
    ELSE DivBits(2 * rem, d0, k - 1, Append(acc, 0))

\* p / t for positive integers p, t: the correctly rounded quotient.
FloatTrueDiv(p, t) ==
    LET up == CHOOSE j \in 0..30 : t * Pow2(j) <= p /\ p < t * Pow2(j + 1)
        dn == CHOOSE j \in 0..30 : p * Pow2(j) >= t /\ p * Pow2(j) < 2 * t
        n0 == IF p >= t THEN p ELSE p * Pow2(dn)
        d0 == IF p >= t THEN t * Pow2(up) ELSE t
        sh == IF p >= t THEN up ELSE 0 - dn
        \* the leading 1, Precision more bits, and a sticky bit for the rest
        q   == DivBits(n0 - d0, d0, Precision, <<1>>)
        all == IF q.rem = 0 THEN q.bits ELSE Append(q.bits, 1)
    IN  RoundToPrecision([bits |-> all, e |-> sh - (Len(all) - 1)])

\* bits * c + carry, from the lowest bit (index i) up; acc holds the bits done.
RECURSIVE MulBits(_, _, _, _, _)
MulBits(bits, c, i, carry, acc) ==
    IF i = 0 THEN BitsOf(carry) \o acc
    ELSE MulBits(bits, c, i - 1, (bits[i] * c + carry) \div 2,
                 <<(bits[i] * c + carry) % 2>> \o acc)

\* x * c for a float x and a small positive integer c, correctly rounded.
FloatMulInt(x, c) ==
    RoundToPrecision([bits |-> MulBits(x.bits, c, Len(x.bits), 0, <<>>), e |-> x.e])

\* int(x) for a float x >= 0: truncation.
FloatTrunc(x) ==
    LET n == Len(x.bits)
    IN  IF x.e >= 0 THEN IntOfBits(x.bits) * Pow2(x.e)
        ELSE IF 0 - x.e >= n THEN 0
        ELSE IntOfBits(SubSeq(x.bits, 1, n + x.e))

\* The percentage with the division left out.
PercentWithoutDivision(pn, tp) == pn * 100

\* int(page_no / total_pages * 100), total_pages > 0.
PercentOfPages(pn, tp) ==
    IF pn = 0 THEN 0
    ELSE FloatTrunc(FloatMulInt(FloatTrueDiv(pn, tp), 100))

\* ------------------------------------------------------------ dictionaries
\* A Python dict is a function whose DOMAIN is the set of keys present.

EmptyDict == [key \in {} |-> 0]

Put(dict, key, val) == (key :> val) @@ dict

\* ------------------------------------------------- results and exceptions
\* A call either returns a value or raises: [exc, val] with exc = "none" for
\* a normal return.

Return(v) == [exc |-> "none", val |-> v]

Raise(e) == [exc |-> e, val |-> EmptyDict]

\* --------------------------------------------------------- convert_body

RECURSIVE LStrip(_)
LStrip(s) == IF s # <<>> /\ s[1] = EmptyTok THEN LStrip(Tail(s)) ELSE s

RECURSIVE RStrip(_)
RStrip(s) ==
    IF s # <<>> /\ s[Len(s)] = EmptyTok THEN RStrip(SubSeq(s, 1, Len(s) - 1)) ELSE s

\* element.text.strip(): leading and trailing spaces go, so no empty token is
\* left at either end.
convert_body(text) == RStrip(LStrip(text))

\* ------------------------------------------------------------ the pattern
\* re.search('.* is (?:on page )?(\d*%?) (?:of (\d*) of|done with) .*', text)

IsWord(s, j, w) == j \in 1..Len(s) /\ s[j] = Word(w)

\* Where group 1 starts when ' is ' is matched at token i: after 'on page '
\* when those words follow (the optional group is greedy, and without it
\* group 1 would have to match at the word 'on', which it cannot).
GroupStart(s, i) ==
    IF IsWord(s, i + 1, "on") /\ IsWord(s, i + 2, "page") THEN i + 3 ELSE i + 1

\* The ' of (\d*) of ' alternative after group 1 at token g.
OfBranch(s, g) ==
    /\ IsWord(s, g + 1, "of")
    /\ g + 2 <= Len(s) /\ s[g + 2].k = "num" /\ ~s[g + 2].pct
    /\ IsWord(s, g + 3, "of")
    /\ g + 4 <= Len(s)

\* The ' done with ' alternative after group 1 at token g.
DoneWithBranch(s, g) ==
    IsWord(s, g + 1, "done") /\ IsWord(s, g + 2, "with") /\ g + 3 <= Len(s)

\* The pattern matches with its ' is ' at token i: a space before it (i > 1),
\* group 1 a token of the shape \d*%?, one of the alternatives, and a space
\* after it (a further token).
MatchesAt(s, i) ==
    /\ i > 1 /\ IsWord(s, i, "is")
    /\ LET g == GroupStart(s, i)
       IN  /\ g <= Len(s) /\ s[g].k = "num"
           /\ (OfBranch(s, g) \/ DoneWithBranch(s, g))

\* The match object: matched, group 1 (a token) and group 2 (has2 FALSE when
\* the group took no part in the match, Python's None).  The leading '.*' is
\* greedy, so the last ' is ' that leads to a match is the one taken.
re_search(s) ==
    LET at == {i \in 1..Len(s) : MatchesAt(s, i)}
    IN  IF at = {} THEN [matched |-> FALSE, g1 |-> EmptyTok, has2 |-> FALSE, g2 |-> <<>>]
        ELSE LET i == CHOOSE x \in at : \A y \in at : y <= x
                 g == GroupStart(s, i)
             IN  [matched |-> TRUE, g1 |-> s[g], has2 |-> OfBranch(s, g),
                  g2 |-> IF OfBranch(s, g) THEN s[g + 2].d ELSE <<>>]

\* 'finished' in progress_text: a substring test.
ContainsFinished(s) == \E j \in 1..Len(s) : s[j].k \in {"finished", "unfinished"}

\* ------------------------------------------ _extract_status_from_element
\* An element is [status_id, progress_text]: the permalink's last path segment
\* and the header's text.  The body, date and book fields are read from other
\* sub-elements and take no part in the progress parsing.

\* Format #2 dropping the page count: total_pages is never stored.
Format2WithoutTotal(status0, page_digits, total_digits) ==
    LET status1 == Put(status0, "page_no", IntOfDigits(page_digits))
    IN  Put(status1, "percentage",
            PercentOfPages(status1["page_no"], IntOfDigits(total_digits)))

\* Format #2: page_no, total_pages and the percentage computed from them.
Format2(status0, page_digits, total_digits) ==
    LET status1 == Put(status0, "page_no", IntOfDigits(page_digits))
        status2 == Put(status1, "total_pages", IntOfDigits(total_digits))
    IN  Put(status2, "percentage",
            PercentOfPages(status2["page_no"], status2["total_pages"]))

extract_status_from_element(element) ==
    LET status0         == Put(EmptyDict, "status_id", element.status_id)
        progress_text   == convert_body(element.progress_text)
        progress_values == re_search(progress_text)
        g1              == progress_values.g1
    IN  IF ~progress_values.matched THEN
            IF ContainsFinished(progress_text)
            THEN Return(Put(status0, "percentage", 100))
            ELSE Return(Put(status0, "percentage", 0))
        \* group(1)[-1] of an empty string
        ELSE IF g1.d = <<>> /\ ~g1.pct THEN Raise("IndexError")
        ELSE IF g1.pct THEN
            \* int(group(1)[:-1]) of a bare '%'
            IF g1.d = <<>> THEN Raise("ValueError")
            ELSE Return(Put(status0, "percentage", IntOfDigits(g1.d)))
        \* int(group(2)) of None, of an empty string; division by zero
        ELSE IF ~progress_values.has2 THEN Raise("TypeError")
        ELSE IF progress_values.g2 = <<>> THEN Raise("ValueError")
        ELSE IF IntOfDigits(progress_values.g2) = 0 THEN Raise("ZeroDivisionError")
        ELSE Return(Format2(status0, g1.d, progress_values.g2))

\* ----------------------------------------------- progress sentences (inputs)

DigitStrs == {Digits(n) : n \in 0..MaxNum} \cup {<<>>, <<0, 7>>, <<1, 0, 0>>, <<1, 5, 0>>}

Firsts == {Num(d, p) : d \in DigitStrs, p \in BOOLEAN}
            \cup {Word("reading"), Word("finished"), Word("currently")}

Titles == {Word("Book"), Word("unfinished")}

Tails == {<<Word("of"), Num(d, FALSE), Word("of"), t>> : d \in DigitStrs, t \in Titles}
           \cup {<<Word("done"), Word("with"), t>> : t \in Titles}
           \cup {<<Word("with"), t>> : t \in Titles}
           \cup {<<t>> : t \in Titles}
           \cup {<<Word("of"), Word("Book")>>, <<Word("done"), Word("with")>>}

\* "<user> is [on page] <first> <tail>"
Shaped == {<<Word("User"), Word("is")>> \o onpage \o <<f>> \o tl :
              onpage \in {<<>>, <<Word("on"), Word("page")>>}, f \in Firsts, tl \in Tails}

\* Sentences outside that frame: no user name before 'is', a title that itself
\* holds a progress phrase, spaces around the text.
Odd == { <<Word("is"), Num(<<4, 2>>, TRUE), Word("done"), Word("with"), Word("Book")>>,
         <<Word("User"), Word("is"), Num(<<4, 2>>, TRUE), Word("done"), Word("with"),
           Word("It"), Word("is"), Num(<<7>>, TRUE), Word("done"), Word("with"), Word("Book")>>,
         <<Word("User"), Word("is"), Word("on"), Word("page"), Num(<<5>>, FALSE), Word("of"),
           Num(<<9>>, FALSE), Word("of"), Word("It"), Word("is"), Word("finished")>>,
         <<EmptyTok, Word("User"), Word("is"), Word("finished"), Word("with"), Word("Book"), EmptyTok>>,
         <<Word("User"), Word("is"), Num(<<4, 2>>, TRUE), Word("done"), Word("with"), EmptyTok>>,
         <<>> }

Sentences == Shaped \cup Odd

ParseElements == {[status_id |-> 1, progress_text |-> s] : s \in Sentences}

\* ------------------------------------------------------ before main runs

NoRet == Raise("not called")

\* The state of a run that has fetched and written nothing.
RunIdle ==
    /\ api_page_no = 0 /\ api_log = <<>> /\ reviews_list = <<>>
    /\ shelves = EmptyDict
    /\ page_no = 0 /\ site_log = <<>> /\ total_status_count = 0 /\ statuses = <<>>
    /\ files = {} /\ error = "none"

\* ----------------------------------- _extract_status_from_element, applied

InitParse ==
    /\ pc = "extract_call" /\ arg \in ParseElements /\ ret = NoRet
    /\ mode = {} /\ RunIdle

ExtractCall ==
    /\ pc = "extract_call"
    /\ ret' = extract_status_from_element(arg)
    /\ pc' = "extract_ret"
    /\ UNCHANGED <<arg, runvars>>

NextParse == ExtractCall

SpecParse == InitParse /\ [][NextParse]_vars

\* ------------------------------------------------------ convert_page_count
\* element.text is None (an element with no text) or a string that is not
\* empty, here a sequence of characters over TextChars.

TextChars == {"0", "1", "7", "a", " ", "-"}

DigitChars == <<"0", "1", "2", "3", "4", "5", "6", "7", "8", "9">>

IsDigitChar(c) == \E i \in 1..10 : DigitChars[i] = c

DigitValue(c) == (CHOOSE i \in 1..10 : DigitChars[i] = c) - 1

RECURSIVE StripLeft(_)
StripLeft(cs) == IF cs # <<>> /\ cs[1] = " " THEN StripLeft(Tail(cs)) ELSE cs

RECURSIVE StripRight(_)
StripRight(cs) ==
    IF cs # <<>> /\ cs[Len(cs)] = " " THEN StripRight(SubSeq(cs, 1, Len(cs) - 1)) ELSE cs

RECURSIVE IntOfDigitChars(_)
IntOfDigitChars(cs) ==
    IF cs = <<>> THEN 0
    ELSE 10 * IntOfDigitChars(SubSeq(cs, 1, Len(cs) - 1)) + DigitValue(cs[Len(cs)])

\* int(text) for a string: surrounding whitespace is skipped, a sign may lead,
\* and what is left must be digits, at least one; anything else is a
\* ValueError.
PyIntOfStr(cs) ==
    LET body   == StripRight(StripLeft(cs))
        signed == body # <<>> /\ body[1] \in {"-", "+"}
        digits == IF signed THEN Tail(body) ELSE body
    IN  IF digits = <<>> \/ \E i \in 1..Len(digits) : ~IsDigitChar(digits[i])
        THEN Raise("ValueError")
        ELSE Return(IF signed /\ body[1] = "-" THEN 0 - IntOfDigitChars(digits)
                    ELSE IntOfDigitChars(digits))

NoneText == [none |-> TRUE, chars |-> <<>>]

Text(cs) == [none |-> FALSE, chars |-> cs]

PyNone == [none |-> TRUE, n |-> 0]

PyIntValue(n) == [none |-> FALSE, n |-> n]

\* try: return int(element.text) / except TypeError: return None
\* int(None) is the TypeError; a ValueError is not caught.
convert_page_count(text) ==
    IF text.none THEN Return(PyNone)
    ELSE LET r == PyIntOfStr(text.chars)
         IN  IF r.exc = "none" THEN Return(PyIntValue(r.val)) ELSE r

\* Longest text given to convert_page_count.
MaxTextLen == 3

RECURSIVE SeqsUpTo(_, _)
SeqsUpTo(S, n) ==
    IF n = 0 THEN {<<>>}
    ELSE LET shorter == SeqsUpTo(S, n - 1)
         IN  shorter \cup {Append(q, x) : q \in shorter, x \in S}

PageCountTexts ==
    {NoneText} \cup {Text(cs) : cs \in SeqsUpTo(TextChars, MaxTextLen) \ {<<>>}}

InitPageCount ==
    /\ pc = "page_count_call" /\ arg \in PageCountTexts /\ ret = NoRet
    /\ mode = {} /\ RunIdle

PageCountCall ==
    /\ pc = "page_count_call"
    /\ ret' = convert_page_count(arg)
    /\ pc' = "page_count_ret"
    /\ UNCHANGED <<arg, runvars>>

NextPageCount == PageCountCall

SpecPageCount == InitPageCount /\ [][NextPageCount]_vars

\* ------------------------------------------- convert_shelves, get_reviews
\* A <review> element is [shelves]: its <shelf> elements, each [name,
\* exclusive], in document order.  The other children are converted field by
\* field and take no part in what follows.

ShelfElement(n) == [name |-> n, exclusive |-> n = "read"]

convert_shelves(element) == [i \in 1..Len(element) |-> element[i].name]

\* get_reviews: the dictionary built from one <review>.
ReviewData(review) == Put(EmptyDict, "bookshelves", convert_shelves(review.shelves))

\* --------------------------------------------------------- extract_shelves
\* shelves maps a shelf name to the list of the books appended to it; a book
\* is held by reference, here its position in reviews.

RECURSIVE AddBook(_, _, _, _)

\* The book put at the front of each shelf's list.
AddBookAtFront(sh, names, k, ref) ==
    IF k > Len(names) THEN sh
    ELSE LET shelf   == names[k]
             created == IF shelf \notin DOMAIN sh THEN Put(sh, shelf, <<>>) ELSE sh
         IN  AddBook(Put(created, shelf, <<ref>> \o created[shelf]), names, k + 1, ref)

\* for shelf in book['bookshelves'] (from position k on), book being reviews[ref]
AddBook(sh, names, k, ref) ==
    IF k > Len(names) THEN sh
    ELSE LET shelf   == names[k]
             created == IF shelf \notin DOMAIN sh THEN Put(sh, shelf, <<>>) ELSE sh
         IN  AddBook(Put(created, shelf, Append(created[shelf], ref)), names, k + 1, ref)

\* for book in reviews (from position i on)
RECURSIVE AddBooks(_, _, _)
AddBooks(sh, reviews, i) ==
    IF i > Len(reviews) THEN sh
    ELSE AddBooks(AddBook(sh, reviews[i]["bookshelves"], 1, i), reviews, i + 1)

extract_shelves(reviews) == AddBooks(EmptyDict, reviews, 1)

\* The shelf memberships the API reports: each shelf of a review once.
Memberships ==
    { <<>>, <<ShelfElement("read")>>, <<ShelfElement("fiction")>>,
      <<ShelfElement("read"), ShelfElement("fiction")>>,
      <<ShelfElement("fiction"), ShelfElement("read")>> }

\* Longest list of reviews given to extract_shelves.
MaxReviews == 3

ReviewLists == SeqsUpTo({ReviewData([shelves |-> m]) : m \in Memberships}, MaxReviews)

InitShelves ==
    /\ pc = "shelves_call" /\ arg = 0 /\ ret = NoRet /\ mode = {}
    /\ api_page_no = 0 /\ api_log = <<>> /\ reviews_list \in ReviewLists
    /\ shelves = EmptyDict
    /\ page_no = 0 /\ site_log = <<>> /\ total_status_count = 0 /\ statuses = <<>>
    /\ files = {} /\ error = "none"

ShelvesCall ==
    /\ pc = "shelves_call"
    /\ shelves' = extract_shelves(reviews_list)
    /\ pc' = "shelves_ret"
    /\ UNCHANGED <<arg, ret, mode, api_page_no, api_log, reviews_list,
                   page_no, site_log, total_status_count, statuses, files, error>>

NextShelves == ShelvesCall

SpecShelves == InitShelves /\ [][NextShelves]_vars
\* ------------------------------------------------------------ run bounds

\* Most items (reviews, status blocks) on one fetched page.
MaxPerPage == 2

\* Most fetches one pagination loop makes before the model stops following it.
MaxFetches == 3

\* Largest total a status page's header declares.
MaxTotal == 2

\* --------------------------------------------- the review API's responses
\* A response is [status_code, reviews, end, total]: the <review> children of
\* <reviews> and its end and total attributes (strings of digits).  The server
\* is free in what it sends.

ApiReviews == {[shelves |-> <<ShelfElement("read")>>],
               [shelves |-> <<ShelfElement("read"), ShelfElement("fiction")>>]}

EndTotals == {<<Digits(0), Digits(0)>>, <<Digits(1), Digits(2)>>,
              <<Digits(2), Digits(2)>>, <<Digits(3), Digits(2)>>}

\* A response with an error status; its body is an empty list all the same.
ApiFailure == [status_code |-> 404, reviews |-> <<>>, end |-> Digits(0), total |-> Digits(0)]

ApiResponsesOf(n) ==
    {[status_code |-> 200, reviews |-> rs, end |-> et[1], total |-> et[2]] :
        rs \in SeqsUpTo(ApiReviews, n), et \in EndTotals} \cup {ApiFailure}

ApiResponses == ApiResponsesOf(MaxPerPage)

\* ---------------------------- _get_data_from_goodreads_api / _site
\* if req.status_code != 200: raise Exception(...)

\* A check that lets a client error through.
FetchRaisesOnServerErrorOnly(status_code) == status_code >= 500

FetchRaises(status_code) == status_code # 200

\* --------------------------------------------------- _get_reviews_from_api

\* The comparison made strict: a page with end = total does not stop the loop.
ApiLastPageStrict(end, total) == IntOfDigits(end) > IntOfDigits(total)

\* if int(reviews.attrib['end']) >= int(reviews.attrib['total']): break
ApiLastPage(end, total) == IntOfDigits(end) >= IntOfDigits(total)

\* for page_no in itertools.count(1): the next value of the loop variable
ApiNextPage(n) == n + 1

\* One turn of the loop of _get_reviews_from_api, each <review> it yields
\* turned into a dictionary by get_reviews and collected by list() in main.
ApiFetch(Resps) ==
    /\ pc = "api_loop"
    /\ Len(api_log) < MaxFetches
    /\ \E r \in Resps :
        /\ api_page_no' = ApiNextPage(api_page_no)
        /\ api_log' = Append(api_log,
                             [page_no |-> api_page_no', status_code |-> r.status_code,
                              reviews |-> r.reviews, end |-> r.end, total |-> r.total])
        /\ IF FetchRaises(r.status_code)
           THEN /\ pc' = "raised"
                /\ error' = "Exception"
                /\ UNCHANGED reviews_list
           ELSE /\ reviews_list' =
                       reviews_list \o [i \in 1..Len(r.reviews) |-> ReviewData(r.reviews[i])]
                /\ pc' = IF ApiLastPage(r.end, r.total) THEN "reviews_fetched" ELSE "api_loop"
                /\ UNCHANGED error
    /\ UNCHANGED <<arg, ret, mode, shelves, page_no, site_log, total_status_count,
                   statuses, files>>

InitReviews ==
    /\ pc = "api_loop" /\ arg = 0 /\ ret = NoRet /\ mode = {"reviews"} /\ RunIdle

NextReviews == ApiFetch(ApiResponses)

SpecReviews == InitReviews /\ [][NextReviews]_vars

\* ------------------------------------------------ the status site's pages
\* A page is [status_code, header, blocks]: the text of the first
\* span.smallText ("Showing 1-30 of 123") and the div.elementList blocks.

ElemPercent ==
    [status_id |-> 1,
     progress_text |-> <<Word("User"), Word("is"), Num(<<4, 2>>, TRUE),
                         Word("done"), Word("with"), Word("Book")>>]

ElemFinished ==
    [status_id |-> 2,
     progress_text |-> <<Word("User"), Word("is"), Word("finished"), Word("with"), Word("Book")>>]

ElemNoPercentSign ==
    [status_id |-> 3,
     progress_text |-> <<Word("User"), Word("is"), Num(<<4, 2>>, FALSE),
                         Word("done"), Word("with"), Word("Book")>>]

SiteElements == {ElemPercent, ElemFinished, ElemNoPercentSign}

Header(total) == <<Word("Showing"), Word("1-30"), Word("of"), Num(Digits(total), FALSE)>>

\* A response with an error status; its body is an empty list page all the same.
SiteFailure == [status_code |-> 404, header |-> Header(0), blocks |-> <<>>]

SiteResponsesOf(n, elements) ==
    {[status_code |-> 200, header |-> Header(t), blocks |-> bs] :
        t \in 0..MaxTotal, bs \in SeqsUpTo(elements, n)} \cup {SiteFailure}

SiteResponses == SiteResponsesOf(MaxPerPage, SiteElements)

\* ------------------------------------------------------------ get_statuses

\* total_status_count = int(page_count_text.split()[-1])
TotalOfHeader(header) == IntOfDigits(header[Len(header)].d)

\* The loop's condition off by one.
LoopGuardInclusive(n, total) == n <= total

\* while len(statuses) < total_status_count
LoopGuard(n, total) == n < total

\* for element in status_elements: statuses.append(_extract_status_from_element(element))
\* The list after the loop, or after the first element that raises, with the
\* exception raised.
RECURSIVE AppendStatuses(_, _)
AppendStatuses(acc, elements) ==
    IF elements = <<>> THEN [statuses |-> acc, exc |-> "none"]
    ELSE LET r == extract_status_from_element(Head(elements))
         IN  IF r.exc # "none" THEN [statuses |-> acc, exc |-> r.exc]
             ELSE AppendStatuses(Append(acc, r.val), Tail(elements))

\* The initial page's blocks parsed into the list as well.
StatusesOfFirstPageParsed(blocks) == AppendStatuses(<<>>, blocks).statuses

\* statuses = []: the initial page gives the total and nothing else; its
\* blocks are not looked at.
StatusesOfFirstPage(blocks) == <<>>

\* req = _get_data_from_goodreads_site(user_id, page_no=next(page_no)), the
\* initial page, and the statements up to the loop.
SiteFirstFetch(Resps) ==
    /\ pc = "get_statuses"
    /\ \E r \in Resps :
        /\ page_no' = page_no + 1
        /\ site_log' = Append(site_log, [page_no |-> page_no,
                                         status_code |-> r.status_code, blocks |-> r.blocks])
        /\ IF FetchRaises(r.status_code)
           THEN /\ pc' = "raised"
                /\ error' = "Exception"
                /\ UNCHANGED <<total_status_count, statuses>>
           ELSE /\ total_status_count' = TotalOfHeader(r.header)
                /\ statuses' = StatusesOfFirstPage(r.blocks)
                /\ pc' = "status_loop"
                /\ UNCHANGED error
    /\ UNCHANGED <<arg, ret, mode, api_page_no, api_log, reviews_list, shelves, files>>

\* One turn of the while loop.
SiteLoopFetch(Resps) ==
    /\ pc = "status_loop"
    /\ LoopGuard(Len(statuses), total_status_count)
    /\ Len(site_log) < MaxFetches
    /\ \E r \in Resps :
        /\ page_no' = page_no + 1
        /\ site_log' = Append(site_log, [page_no |-> page_no,
                                         status_code |-> r.status_code, blocks |-> r.blocks])
        /\ IF FetchRaises(r.status_code)
           THEN /\ pc' = "raised"
                /\ error' = "Exception"
                /\ UNCHANGED statuses
           ELSE LET done == AppendStatuses(statuses, r.blocks)
                IN  /\ statuses' = done.statuses
                    /\ error' = done.exc
                    /\ pc' = IF done.exc = "none" THEN "status_loop" ELSE "raised"
    /\ UNCHANGED <<arg, ret, mode, api_page_no, api_log, reviews_list, shelves,
                   total_status_count, files>>

\* The loop's condition is false: return statuses.
SiteReturn ==
    /\ pc = "status_loop"
    /\ ~LoopGuard(Len(statuses), total_status_count)
    /\ pc' = "statuses_ret"
    /\ UNCHANGED <<arg, ret, runvars>>

InitStatuses ==
    /\ pc = "get_statuses" /\ arg = 0 /\ ret = NoRet /\ mode = {"statuses"} /\ RunIdle

NextStatuses ==
    \/ SiteFirstFetch(SiteResponses)
    \/ SiteLoopFetch(SiteResponses)
    \/ SiteReturn

SpecStatuses == InitStatuses /\ [][NextStatuses]_vars

\* -------------------------------------------------------------------- main

Modes == (SUBSET {"reviews", "shelves", "statuses"}) \ {{}}

ReviewsFile == <<"goodreads_reviews", ".json">>

StatusesFile == <<"goodreads_statuses", ".json">>

ShelfFile(shelf_name) == <<shelf_name, ".csv">>

\* if 'reviews' in cfg['mode'] or 'shelves' in cfg['mode']
MainStart ==
    /\ pc = "main"
    /\ pc' = IF "reviews" \in mode \/ "shelves" \in mode THEN "api_loop" ELSE "main_statuses"
    /\ UNCHANGED <<arg, ret, runvars>>

\* if 'reviews' in cfg['mode']: write_reviews_to_disk(reviews_list, ...)
MainWriteReviews ==
    /\ pc = "reviews_fetched"
    /\ files' = IF "reviews" \in mode THEN files \cup {ReviewsFile} ELSE files
    /\ pc' = "main_shelves"
    /\ UNCHANGED <<arg, ret, mode, api_page_no, api_log, reviews_list, shelves,
                   page_no, site_log, total_status_count, statuses, error>>

\* if 'shelves' in cfg['mode']: extract_shelves, write_shelves_to_disk
MainWriteShelves ==
    /\ pc = "main_shelves"
    /\ IF "shelves" \in mode
       THEN /\ shelves' = extract_shelves(reviews_list)
            /\ files' = files \cup {ShelfFile(n) : n \in DOMAIN shelves'}
       ELSE UNCHANGED <<shelves, files>>
    /\ pc' = "main_statuses"
    /\ UNCHANGED <<arg, ret, mode, api_page_no, api_log, reviews_list,
                   page_no, site_log, total_status_count, statuses, error>>

\* if 'statuses' in cfg['mode']
MainStatuses ==
    /\ pc = "main_statuses"
    /\ pc' = IF "statuses" \in mode THEN "get_statuses" ELSE "exit"
    /\ UNCHANGED <<arg, ret, runvars>>

\* write_statuses_to_disk(statuses, cfg['output'])
MainWriteStatuses ==
    /\ pc = "statuses_ret"
    /\ files' = files \cup {StatusesFile}
    /\ pc' = "exit"
    /\ UNCHANGED <<arg, ret, mode, api_page_no, api_log, reviews_list, shelves,
                   page_no, site_log, total_status_count, statuses, error>>

\* What a whole run is followed on: pages of at most one item.
MainApiResponses == ApiResponsesOf(1)

MainSiteResponses == SiteResponsesOf(1, {ElemPercent, ElemNoPercentSign})

Init ==
    /\ pc = "main" /\ arg = 0 /\ ret = NoRet /\ mode \in Modes /\ RunIdle

Next ==
    \/ MainStart
    \/ ApiFetch(MainApiResponses)
    \/ MainWriteReviews
    \/ MainWriteShelves
    \/ MainStatuses
    \/ SiteFirstFetch(MainSiteResponses)
    \/ SiteLoopFetch(MainSiteResponses)
    \/ SiteReturn
    \/ MainWriteStatuses

Spec == Init /\ [][Next]_vars
\* =================================================================== claims

\* ------------------------------------------------- what the formulas use

\* The sequence q1 \o q2 \o ... of the sequences in qs.
RECURSIVE Flatten(_)
Flatten(qs) == IF qs = <<>> THEN <<>> ELSE Head(qs) \o Flatten(Tail(qs))

\* The records of a page's blocks, one per block, in page order.
RecordsOfPage(blocks) ==
    [i \in 1..Len(blocks) |-> extract_status_from_element(blocks[i]).val]

\* The records of the pages site_log[from..], in the order fetched.
RecordsOfPagesFrom(from) ==
    Flatten([i \in 1..(Len(site_log) - from + 1) |->
                RecordsOfPage(site_log[i + from - 1].blocks)])

\* get_statuses is in its loop or has returned.
StatusesRunning == pc \in {"status_loop", "statuses_ret"}

Returned == pc = "extract_ret" /\ ret.exc = "none"

\* The match object of the sentence given to _extract_status_from_element.
ArgMatch == re_search(convert_body(arg.progress_text))

PercentForm == ArgMatch.matched /\ ArgMatch.g1.pct

PageForm == ArgMatch.matched /\ ~ArgMatch.g1.pct

\* ----------------------------------------------------------------------- C1

\* C1 (as stated): the list get_statuses returns holds the records of the
\* blocks of every page it fetched, the initial page (index 0) included, in
\* the order fetched.
C1_EveryFetchedPageAppended ==
    pc = "statuses_ret" => statuses = RecordsOfPagesFrom(1)

\* C1 (amended): the pages are fetched with indices 0, 1, 2, ...; the list
\* holds the records of the blocks of every page fetched in the loop (index 1
\* and up), in the order fetched, and nothing of the initial page (index 0),
\* which gives only the declared total.
C1_EveryLoopPageAppended ==
    /\ \A i \in 1..Len(site_log) : site_log[i].page_no = i - 1
    /\ StatusesRunning => statuses = RecordsOfPagesFrom(2)

\* get_statuses has returned after an initial page that held blocks and two
\* more pages.
C1_Witness ==
    /\ pc = "statuses_ret"
    /\ Len(site_log) = 3
    /\ site_log[1].blocks # <<>>
    /\ site_log[2].blocks # <<>> /\ site_log[3].blocks # <<>>

\* ----------------------------------------------------------------------- C2

\* C2: a page is fetched in the loop only while fewer records than the
\* declared total are held; get_statuses returns only when the count has
\* reached the total, and without another fetch; with a declared total of 0
\* it returns the empty list after exactly one fetch.
C2_StopsExactlyAtTotal ==
    [][ /\ (pc = "status_loop" /\ site_log' # site_log)
            => Len(statuses) < total_status_count
        /\ (pc = "status_loop" /\ Len(statuses) < total_status_count)
            => pc' # "statuses_ret"
        /\ (pc' = "statuses_ret" /\ pc # "statuses_ret")
            => /\ Len(statuses) >= total_status_count
               /\ site_log' = site_log /\ statuses' = statuses
        /\ (pc' = "statuses_ret" /\ total_status_count' = 0)
            => Len(site_log') = 1 /\ statuses' = <<>> ]_vars

\* get_statuses has returned, after three fetches, a list that reached the
\* declared total with the last of them.
C2_Witness ==
    /\ pc = "statuses_ret"
    /\ Len(site_log) = 3
    /\ total_status_count = 2
    /\ Len(statuses) >= 2
    /\ site_log[2].blocks # <<>>

\* ----------------------------------------------------------------------- C3

\* C3 (as stated): the percentage stored is an integer in 0..100.
C3_PercentageInRange ==
    Returned => ret.val["percentage"] \in 0..100

\* C3 (amended): the percentage stored is a natural number; it is in 0..100
\* for a sentence the pattern does not match, for a captured percent value of
\* at most 100 and for a captured page_no of at most total_pages; a captured
\* percent value above 100 is stored as it is, and a page_no above
\* total_pages gives 100 or more.
C3_PercentageInRangeForProgressInRange ==
    Returned =>
        LET p == ret.val["percentage"]
        IN  /\ p \in Nat
            /\ ~ArgMatch.matched => p \in {0, 100}
            /\ PercentForm => p = IntOfDigits(ArgMatch.g1.d)
            /\ PageForm =>
                 IF IntOfDigits(ArgMatch.g1.d) <= IntOfDigits(ArgMatch.g2)
                 THEN p \in 0..100 ELSE p >= 100

\* A page-X-of-Y sentence with X below Y has been parsed.
C3_Witness ==
    /\ Returned /\ PageForm
    /\ IntOfDigits(ArgMatch.g1.d) = 29 /\ IntOfDigits(ArgMatch.g2) = 50
    /\ ret.val["percentage"] \in 1..99

\* ----------------------------------------------------------------------- C4

\* C4: no match and "finished" gives 100; no match otherwise gives 0; a
\* capture ending in '%' gives that integer, whatever follows it; otherwise
\* page_no and total_pages are the captures and the percentage is
\* floor(page_no * 100 / total_pages).
C4_FourBranchesWithFloor ==
    Returned =>
        LET st == ret.val
        IN  IF ~ArgMatch.matched
            THEN st["percentage"] =
                   (IF ContainsFinished(convert_body(arg.progress_text)) THEN 100 ELSE 0)
            ELSE IF ArgMatch.g1.pct
            THEN st["percentage"] = IntOfDigits(ArgMatch.g1.d)
            ELSE /\ st["page_no"] = IntOfDigits(ArgMatch.g1.d)
                 /\ st["total_pages"] = IntOfDigits(ArgMatch.g2)
                 /\ st["percentage"] = (st["page_no"] * 100) \div st["total_pages"]

\* ----------------------------------------------------------------------- C5

\* C5: a record returned by _extract_status_from_element has a percentage,
\* has page_no and total_pages both or neither, and has them exactly when the
\* page-X-of-Y branch was taken.
C5_PercentageAlwaysPagesTogether ==
    Returned =>
        /\ "percentage" \in DOMAIN ret.val
        /\ ("page_no" \in DOMAIN ret.val) <=> ("total_pages" \in DOMAIN ret.val)
        /\ ("page_no" \in DOMAIN ret.val) <=> PageForm

\* A record with page_no and total_pages has been returned.
C5_Witness ==
    /\ Returned
    /\ {"page_no", "total_pages", "percentage"} \subseteq DOMAIN ret.val
    /\ ret.val["total_pages"] = 7

\* ----------------------------------------------------------------------- C6

\* A status-page fetch of this run got a status other than 200.
StatusFetchFailed ==
    site_log # <<>> /\ site_log[Len(site_log)].status_code # 200

\* The shelf names a review lists.
ShelfNamesOf(review) == {review["bookshelves"][j] : j \in 1..Len(review["bookshelves"])}

\* C6 (as stated): after a status-page fetch that failed, the run has ended,
\* the failed page was fetched once and no page after it, and no output file
\* has been written.
C6_NoOutputAtAll ==
    StatusFetchFailed =>
        /\ pc = "raised"
        /\ \A i \in 1..Len(site_log) : site_log[i].page_no = i - 1
        /\ files = {}

\* C6 (amended): after a status-page fetch that failed, the run has ended, the
\* failed page was fetched once and no page after it, and
\* goodreads_statuses.json has not been written; the review file and the shelf
\* files of the selected modes, written before the statuses are fetched, are
\* there.
C6_NoStatusesFileNoRetry ==
    /\ \A i \in 1..Len(site_log) :
          /\ site_log[i].page_no = i - 1
          /\ site_log[i].status_code # 200 => i = Len(site_log)
    /\ StatusFetchFailed =>
          /\ pc = "raised" /\ error = "Exception"
          /\ StatusesFile \notin files
          /\ files = (IF "reviews" \in mode THEN {ReviewsFile} ELSE {})
                       \cup (IF "shelves" \in mode
                             THEN {ShelfFile(n) : n \in UNION {ShelfNamesOf(reviews_list[i]) :
                                                                  i \in 1..Len(reviews_list)}}
                             ELSE {})

\* The second status page failed in a run that had written the review file.
C6_Witness ==
    /\ StatusFetchFailed
    /\ Len(site_log) = 2
    /\ ReviewsFile \in files

\* ----------------------------------------------------------------------- C7

\* The dictionaries of the reviews of the pages fetched, in the order fetched.
ReviewsOfPages ==
    Flatten([i \in 1..Len(api_log) |->
                [j \in 1..Len(api_log[i].reviews) |-> ReviewData(api_log[i].reviews[j])]])

\* C7: the pages requested are 1, 2, 3, ... in order, each once; every item of
\* every page fetched is yielded, in page order; the loop goes on after a page
\* with end < total and stops after the first page with end >= total; a fetch
\* with a status other than 200 raises and nothing is fetched after it.
C7_ReviewPagesInOrderUntilEndReachesTotal ==
    LET n == Len(api_log)
    IN  /\ api_page_no = n
        /\ \A i \in 1..n : api_log[i].page_no = i
        /\ \A i \in 1..(n - 1) :
              /\ api_log[i].status_code = 200
              /\ IntOfDigits(api_log[i].end) < IntOfDigits(api_log[i].total)
        /\ reviews_list = ReviewsOfPages
        /\ (n > 0 /\ api_log[n].status_code # 200) <=> pc = "raised"
        /\ (n > 0 /\ api_log[n].status_code = 200
                  /\ IntOfDigits(api_log[n].end) >= IntOfDigits(api_log[n].total))
             <=> pc = "reviews_fetched"

\* The loop has stopped at the third page, whose end equals its total.
C7_Witness ==
    /\ pc = "reviews_fetched"
    /\ Len(api_log) = 3
    /\ api_log[3].end = api_log[3].total
    /\ Len(reviews_list) >= 3

\* ----------------------------------------------------------------------- C8

\* C8: the map has exactly the shelf names some review lists; under each name
\* are the reviews that list it, each once, by reference, in the order of the
\* reviews.
C8_EachReviewOnceUnderEachOfItsShelves ==
    pc = "shelves_ret" =>
        /\ DOMAIN shelves = UNION {ShelfNamesOf(reviews_list[i]) : i \in 1..Len(reviews_list)}
        /\ \A s \in DOMAIN shelves :
              /\ {shelves[s][k] : k \in 1..Len(shelves[s])}
                   = {i \in 1..Len(reviews_list) : s \in ShelfNamesOf(reviews_list[i])}
              /\ \A k \in 1..(Len(shelves[s]) - 1) : shelves[s][k] < shelves[s][k + 1]

\* Three reviews, the first and the last on both shelves, have been sorted.
C8_Witness ==
    /\ pc = "shelves_ret"
    /\ Len(reviews_list) = 3
    /\ {"read", "fiction"} \subseteq DOMAIN shelves
    /\ shelves["read"] = <<1, 3>>
    /\ shelves["fiction"] = <<1, 2, 3>>

\* ----------------------------------------------------------------------- C9

\* C9: _extract_status_from_element raises on no progress sentence: it stores
\* a percentage, and 0 or 100 for a sentence that is neither a well-formed
\* percent nor a well-formed page-X-of-Y phrase.
C9_ParsingNeverRaises ==
    pc = "extract_ret" =>
        /\ ret.exc = "none"
        /\ "percentage" \in DOMAIN ret.val
        /\ ~ArgMatch.matched => ret.val["percentage"] \in {0, 100}

\* ---------------------------------------------------------------------- C10

\* The text is numeric: digits, with an optional sign and spaces around.
IsNumeric(text) == ~text.none /\ PyIntOfStr(text.chars).exc = "none"

\* C10: convert_page_count never raises; it returns None for a text that is
\* absent or not numeric and the integer for a numeric text.
C10_NoneUnlessNumericNeverRaises ==
    pc = "page_count_ret" =>
        /\ ret.exc = "none"
        /\ IF IsNumeric(arg) THEN ~ret.val.none /\ ret.val.n = PyIntOfStr(arg.chars).val
           ELSE ret.val.none
====
